---- MODULE Spec2Model ----
(***************************************************************************)
(* Model of diffcalc.hkl.constraints.Constraints: the 17 constraint slots, *)
(* the admission rule of the property setters, the bulk setters asdict and *)
(* astuple, clear, and the mode classifier is_current_mode_implemented.    *)
(*                                                                         *)
(* crystal is the diffcalc.ub.crystal.Crystal object that Crystal.__init__ *)
(* builds from a LatticeParams: its attributes, or NoCrystal when there is *)
(* none.                                                                   *)
(*                                                                         *)
(* Python values are records [t, m]: t is the Python type of the value     *)
(* ("None", "True", "float", "Quantity") and m its magnitude.  A Quantity  *)
(* is always expressed in the canonical unit (diffcalc.util.unit).         *)
(***************************************************************************)
EXTENDS Integers, Sequences, FiniteSets, TLC

VARIABLES value, last, crystal, reference

vars == <<value, last, crystal, reference>>

\* Numeric magnitudes offered to the setters are 1..MaxVal.
MaxVal == 1

\* A bulk setter (asdict, astuple) is given at most MaxImportLen entries.
MaxImportLen == 1

---------------------------------------------------------------------------
\* Python values

PyNone == [t |-> "None", m |-> 0]

PyTrue == [t |-> "True", m |-> 0]

PyFalse == [t |-> "False", m |-> 0]

Float(x) == [t |-> "float", m |-> x]

Quantity(x) == [t |-> "Quantity", m |-> x]

NumVals == 1..MaxVal

\* The values a caller passes to a setter.
InVals == {PyNone, PyTrue} \cup {Float(x) : x \in NumVals} \cup {Quantity(x) : x \in NumVals}

\* float(val) for the values that reach it: float(True) is 1.0.
pyfloat(val) == IF val = PyTrue THEN 1 ELSE val.m

---------------------------------------------------------------------------
\* The slot table (Constraints.__init__)

all ==
  << "delta", "nu", "qaz", "naz",
     "a_eq_b", "alpha", "beta", "psi", "bin_eq_bout", "betain", "betaout",
     "mu", "eta", "chi", "phi", "bisect", "omega" >>

Names == {all[i] : i \in 1..Len(all)}

con_category(n) ==
  IF n \in {"delta", "nu", "qaz", "naz"} THEN "DETECTOR"
  ELSE IF n \in {"a_eq_b", "alpha", "beta", "psi", "bin_eq_bout", "betain", "betaout"}
       THEN "REFERENCE"
  ELSE "SAMPLE"

con_type(n) == IF n \in {"a_eq_b", "bin_eq_bout", "bisect"} THEN "VOID" ELSE "VALUE"

\* Every slot's value is None after construction without constraints.
fresh == [n \in Names |-> PyNone]

\* _Constraint.active
active(v, n) == v[n] # PyNone

\* Constraints.constrained (as a set of slot names)
constrained(v) == {n \in Names : active(v, n)}

\* Constraints.detector / reference / sample: the active slots of a category
of_category(v, cat) == {n \in constrained(v) : con_category(n) = cat}

\* The argument con=None of is_fully_constrained
NoCon == "None"

\* Mutant of max_constrained: two detector (or reference) slots are admitted.
max_constrained_two(cat) == IF cat = "SAMPLE" THEN 3 ELSE 2

\* Mutant of max_constrained: two detector slots are admitted.
max_constrained_detector_two(cat) ==
  IF cat = "SAMPLE" THEN 3 ELSE IF cat = "DETECTOR" THEN 2 ELSE 1

max_constrained(cat) == IF cat = "SAMPLE" THEN 3 ELSE 1

\* Mutant of is_fully_constrained: without a category, full only above three.
is_fully_constrained_above_three(v, con) ==
  IF con = NoCon
  THEN Cardinality(constrained(v)) > 3
  ELSE Cardinality(of_category(v, con_category(con))) >= max_constrained(con_category(con))

is_fully_constrained(v, con) ==
  IF con = NoCon
  THEN Cardinality(constrained(v)) >= 3
  ELSE Cardinality(of_category(v, con_category(con))) >= max_constrained(con_category(con))

---------------------------------------------------------------------------
\* Outcomes of a call: the slot values it leaves, what it returned (ret), the
\* exception it raised (exc = "None": it returned), and the index of the bulk
\* entry that raised.

Ok(v) == [value |-> v, ret |-> PyNone, exc |-> "None", msg |-> "", at |-> 0]

Ret(v, b) ==
  [value |-> v, ret |-> IF b THEN PyTrue ELSE PyFalse, exc |-> "None", msg |-> "", at |-> 0]

Raise(v, exc, msg) == [value |-> v, ret |-> PyNone, exc |-> exc, msg |-> msg, at |-> 0]

\* Mutant of set_value: the VALUE/VOID type checks are left out.
set_value_unchecked(v, con, val) ==
  IF val = PyNone
  THEN Raise(v, "TypeError", "float() argument")
  ELSE IF con_type(con) = "VOID" /\ val = PyTrue
  THEN Ok([v EXCEPT ![con] = PyTrue])
  ELSE Ok([v EXCEPT ![con] = Quantity(pyfloat(val))])

\* set_value, the inner function of _set_factory
set_value(v, con, val) ==
  IF con_type(con) = "VALUE" /\ val = PyTrue
  THEN Raise(v, "DiffcalcException", "requires numerical value")
  ELSE IF val = PyNone
  THEN Raise(v, "TypeError", "float() argument")
  ELSE LET q  == IF val.t = "Quantity" THEN val ELSE Quantity(pyfloat(val))
           v1 == [v EXCEPT ![con] = q]
       IN IF con_type(con) = "VOID"
          THEN IF val # PyNone /\ val # PyTrue
               THEN Raise(v1, "DiffcalcException", "requires boolean value")
               ELSE Ok([v1 EXCEPT ![con] = val])
          ELSE Ok(v1)

\* Mutant of set_factory: a blocked set keeps the slot it should replace.
set_factory_keeps_existing(v, con, val) ==
  IF ~(~is_fully_constrained(v, con) /\ ~is_fully_constrained(v, NoCon))
       /\ Cardinality(of_category(v, con_category(con))) # 1
  THEN Raise(v, "DiffcalcException", "Cannot set constraint")
  ELSE set_value(v, con, val)

\* Mutant of set_factory: a blocked set that cannot replace sets anyway.
set_factory_never_raises(v, con, val) ==
  IF ~(~is_fully_constrained(v, con) /\ ~is_fully_constrained(v, NoCon))
       /\ Cardinality(of_category(v, con_category(con))) = 1
  THEN set_value([v EXCEPT ![CHOOSE c \in of_category(v, con_category(con)) : TRUE] = PyNone],
                 con, val)
  ELSE set_value(v, con, val)

\* Mutant of set_factory: with three slots active a blocked set is refused,
\* whatever the target category holds.
set_factory_refuses_when_full(v, con, val) ==
  LET cons_of_this_category == of_category(v, con_category(con))
      can_set_constraint_of_this_category ==
        ~is_fully_constrained(v, con) /\ ~is_fully_constrained(v, NoCon)
  IN IF ~can_set_constraint_of_this_category
     THEN IF Cardinality(cons_of_this_category) = 1 /\ ~is_fully_constrained(v, NoCon)
          THEN LET existing_con == CHOOSE c \in cons_of_this_category : TRUE
               IN set_value([v EXCEPT ![existing_con] = PyNone], con, val)
          ELSE Raise(v, "DiffcalcException", "Cannot set constraint")
     ELSE set_value(v, con, val)

\* Mutant of set_factory: a blocked set replaces a slot of the target
\* category whenever that category holds one or more active slots.
set_factory_replaces_any(v, con, val) ==
  LET cons_of_this_category == of_category(v, con_category(con))
      can_set_constraint_of_this_category ==
        ~is_fully_constrained(v, con) /\ ~is_fully_constrained(v, NoCon)
  IN IF ~can_set_constraint_of_this_category
     THEN IF Cardinality(cons_of_this_category) >= 1
          THEN LET existing_con == CHOOSE c \in cons_of_this_category : TRUE
               IN set_value([v EXCEPT ![existing_con] = PyNone], con, val)
          ELSE Raise(v, "DiffcalcException", "Cannot set constraint")
     ELSE set_value(v, con, val)

\* Mutant of set_factory: a blocked set whose category holds no active slot
\* takes the place of an active slot of another category.
set_factory_replaces_other_category(v, con, val) ==
  LET cons_of_this_category == of_category(v, con_category(con))
      can_set_constraint_of_this_category ==
        ~is_fully_constrained(v, con) /\ ~is_fully_constrained(v, NoCon)
  IN IF ~can_set_constraint_of_this_category
     THEN IF Cardinality(cons_of_this_category) = 1
          THEN LET existing_con == CHOOSE c \in cons_of_this_category : TRUE
               IN set_value([v EXCEPT ![existing_con] = PyNone], con, val)
          ELSE IF Cardinality(cons_of_this_category) = 0
          THEN LET existing_con == CHOOSE c \in constrained(v) : TRUE
               IN set_value([v EXCEPT ![existing_con] = PyNone], con, val)
          ELSE Raise(v, "DiffcalcException", "Cannot set constraint")
     ELSE set_value(v, con, val)

\* Constraints._set_factory: the admission rule, then set_value
set_factory(v, con, val) ==
  LET cons_of_this_category == of_category(v, con_category(con))
      can_set_constraint_of_this_category ==
        ~is_fully_constrained(v, con) /\ ~is_fully_constrained(v, NoCon)
  IN IF ~can_set_constraint_of_this_category
     THEN IF Cardinality(cons_of_this_category) = 1
          THEN LET existing_con == CHOOSE c \in cons_of_this_category : TRUE
               IN set_value([v EXCEPT ![existing_con] = PyNone], con, val)
          ELSE Raise(v, "DiffcalcException", "Cannot set constraint")
     ELSE set_value(v, con, val)

\* Mutant of deleter: every slot of the category loses its value.
deleter_of_category(v, con) ==
  [n \in Names |-> IF con_category(n) = con_category(con) THEN PyNone ELSE v[n]]

\* Mutant of deleter: the slot keeps its value.
deleter_keeps_value(v, con) == v

\* The property deleters: self._<name>.value = None
deleter(v, con) == [v EXCEPT ![con] = PyNone]

\* Constraints.clear: delattr for every slot of _all
\* Mutant of clear_from: the last slot of _all is left out.
RECURSIVE clear_from_all_but_last(_, _)
clear_from_all_but_last(v, i) ==
  IF i >= Len(all) THEN v ELSE clear_from_all_but_last(deleter(v, all[i]), i + 1)

RECURSIVE clear_from(_, _)
clear_from(v, i) ==
  IF i > Len(all) THEN v ELSE clear_from(deleter(v, all[i]), i + 1)

clear(v) == clear_from(v, 1)

---------------------------------------------------------------------------
\* is_current_mode_implemented, branch by branch

\* count_sample == 3: the active slots are exactly one of four triples
implemented_3_samp(v) ==
  \/ constrained(v) = {"chi", "phi", "eta"}
  \/ constrained(v) = {"chi", "phi", "mu"}
  \/ constrained(v) = {"chi", "eta", "mu"}
  \/ constrained(v) = {"phi", "eta", "mu"}

\* Mutant of implemented_1_samp: every sample slot is accepted.
implemented_1_samp_all(v) == TRUE

\* count_sample == 1: neither omega nor bisect is active
implemented_1_samp(v) ==
  "omega" \notin constrained(v) /\ "bisect" \notin constrained(v)

\* count_reference == 1: one of six sample pairs is among the active slots
implemented_2_samp_ref(v) ==
  \/ {"chi", "phi"} \subseteq constrained(v)
  \/ {"chi", "eta"} \subseteq constrained(v)
  \/ {"chi", "mu"} \subseteq constrained(v)
  \/ {"mu", "eta"} \subseteq constrained(v)
  \/ {"mu", "phi"} \subseteq constrained(v)
  \/ {"eta", "phi"} \subseteq constrained(v)

\* count_detector == 1: one of nine sample pairs is among the active slots
implemented_2_samp_det(v) ==
  \/ {"chi", "phi"} \subseteq constrained(v)
  \/ {"mu", "eta"} \subseteq constrained(v)
  \/ {"mu", "phi"} \subseteq constrained(v)
  \/ {"mu", "chi"} \subseteq constrained(v)
  \/ {"eta", "phi"} \subseteq constrained(v)
  \/ {"eta", "chi"} \subseteq constrained(v)
  \/ {"mu", "bisect"} \subseteq constrained(v)
  \/ {"eta", "bisect"} \subseteq constrained(v)
  \/ {"omega", "bisect"} \subseteq constrained(v)

\* Mutant of is_current_mode_implemented: no check that the set is full.
is_current_mode_implemented_unguarded(v) ==
  LET count_detector  == Cardinality(of_category(v, "DETECTOR"))
      count_reference == Cardinality(of_category(v, "REFERENCE"))
      count_sample    == Cardinality(of_category(v, "SAMPLE"))
  IN Ret(v, IF count_sample = 3 THEN implemented_3_samp(v)
            ELSE IF count_sample = 1 THEN implemented_1_samp(v)
            ELSE IF count_reference = 1 THEN implemented_2_samp_ref(v)
            ELSE IF count_detector = 1 THEN implemented_2_samp_det(v)
            ELSE FALSE)

\* The branch of is_current_mode_implemented that decides for a set of three
\* active slots; "fall_through" is the final 'return False'.
mode_branch(v) ==
  LET count_detector  == Cardinality(of_category(v, "DETECTOR"))
      count_reference == Cardinality(of_category(v, "REFERENCE"))
      count_sample    == Cardinality(of_category(v, "SAMPLE"))
  IN IF count_sample = 3 THEN "3_samp"
     ELSE IF count_sample = 1 THEN "1_samp"
     ELSE IF count_reference = 1 THEN "2_samp_ref"
     ELSE IF count_detector = 1 THEN "2_samp_det"
     ELSE "fall_through"

is_current_mode_implemented(v) ==
  IF ~is_fully_constrained(v, NoCon)
  THEN Raise(v, "ValueError", "Three constraints required")
  ELSE LET count_detector  == Cardinality(of_category(v, "DETECTOR"))
           count_reference == Cardinality(of_category(v, "REFERENCE"))
           count_sample    == Cardinality(of_category(v, "SAMPLE"))
       IN Ret(v, IF count_sample = 3 THEN implemented_3_samp(v)
                 ELSE IF count_sample = 1 THEN implemented_1_samp(v)
                 ELSE IF count_reference = 1 THEN implemented_2_samp_ref(v)
                 ELSE IF count_detector = 1 THEN implemented_2_samp_det(v)
                 ELSE FALSE)

---------------------------------------------------------------------------
\* No second ReflectionList or OrientationList object was constructed.  Of
\* a second object, state says whether its list is the first object's list
\* ("shared") or a list of its own ("own"), kept in reflections.
NoSecond == [state |-> "none", indegrees |-> TRUE, reflections |-> << >>]

\* No ReflectionList or OrientationList object was constructed.
NoReference == [cls |-> "", indegrees |-> TRUE, reflections |-> << >>, second |-> NoSecond]

\* No Crystal object: none was constructed, or its constructor raised.
NoCrystal ==
  [name |-> "", a |-> PyNone, b |-> PyNone, c |-> PyNone,
   alpha |-> PyNone, beta |-> PyNone, gamma |-> PyNone, system |-> ""]

---------------------------------------------------------------------------
\* Bulk setters.  An entry is a record [kind, name, val]: kind "item" is a
\* key/value item of a mapping, "str" a bare name in a sequence, "pair" a
\* (name, value) tuple in a sequence, "other" any other sequence element.

\* Public attributes of a Constraints object that are no slots: an instance
\* attribute, two properties and a method.
PublicAttributes == {"indegrees", "detector", "all", "clear"}

\* The names given to the bulk setters that are no slot names: one that is
\* no attribute of a Constraints object, and the public attributes.
OtherNames == {"foo"} \cup PublicAttributes

EntryNames == Names \cup OtherNames

\* hasattr(self, n)
hasattr(n) == n \in Names \cup PublicAttributes

\* hasattr(self, n) and isinstance(getattr(self, "_" + n), _Constraint):
\* "True", "False", or "AttributeError" when getattr finds no attribute _n.
\* The object has the attributes _<slot> (a _Constraint) and _all (a tuple).
is_constraint_name(n) ==
  IF ~hasattr(n) THEN "False"
  ELSE IF n \in Names THEN "True"
  ELSE IF n = "all" THEN "False"
  ELSE "AttributeError"

At(r, i) == [r EXCEPT !.at = i]

\* The loop of the asdict setter over constraints.items(), from item i
RECURSIVE asdict_items(_, _, _)
asdict_items(v, items, i) ==
  IF i > Len(items) THEN Ok(v)
  ELSE IF is_constraint_name(items[i].name) = "AttributeError"
  THEN At(Raise(v, "AttributeError", "object has no attribute"), i)
  ELSE IF is_constraint_name(items[i].name) = "True"
  THEN LET r == set_factory(v, items[i].name, items[i].val)
       IN IF r.exc # "None" THEN At(r, i) ELSE asdict_items(r.value, items, i + 1)
  ELSE At(Raise(v, "DiffcalcException", "Invalid constraint name"), i)

\* Mutant of asdict_setter: the set is not cleared first.
asdict_setter_without_clear(v, items) == asdict_items(v, items, 1)

\* The asdict setter: clear, then the items in order
asdict_setter(v, items) == asdict_items(clear(v), items, 1)

\* The loop of the astuple setter over the elements, from element i
RECURSIVE astuple_items(_, _, _)
astuple_items(v, els, i) ==
  IF i > Len(els) THEN Ok(v)
  ELSE IF els[i].kind \in {"str", "pair"} /\ is_constraint_name(els[i].name) = "AttributeError"
  THEN At(Raise(v, "AttributeError", "object has no attribute"), i)
  ELSE IF els[i].kind = "str" /\ is_constraint_name(els[i].name) = "True"
  THEN LET r == set_factory(v, els[i].name, PyTrue)
       IN IF r.exc # "None" THEN At(r, i) ELSE astuple_items(r.value, els, i + 1)
  ELSE IF els[i].kind = "pair" /\ is_constraint_name(els[i].name) = "True"
  THEN LET r == set_factory(v, els[i].name, els[i].val)
       IN IF r.exc # "None" THEN At(r, i) ELSE astuple_items(r.value, els, i + 1)
  ELSE At(Raise(v, "DiffcalcException", "Invalid constraint parameter"), i)

\* The astuple setter: clear, then the elements in order
astuple_setter(v, els) == astuple_items(clear(v), els, 1)

Entry(kind, name, val) == [kind |-> kind, name |-> name, val |-> val]

DictEntries == {Entry("item", n, val) : n \in EntryNames, val \in InVals}

TupleEntries ==
  {Entry("pair", n, val) : n \in EntryNames, val \in InVals}
    \cup {Entry("str", n, PyNone) : n \in EntryNames}
    \cup {Entry("other", "", PyNone)}

\* The names of the active slots in the order of _all
constrained_names(v) == SelectSeq(all, LAMBDA n : active(v, n))

\* The asdict getter: an item name: value for every active slot of _all
asdict_getter(v) ==
  LET names == constrained_names(v)
  IN [i \in 1..Len(names) |-> Entry("item", names[i], v[names[i]])]

\* Mutant of astuple_getter: every active slot is emitted as a pair.
astuple_getter_all_pairs(v) ==
  LET names == constrained_names(v)
  IN [i \in 1..Len(names) |-> Entry("pair", names[i], v[names[i]])]

\* The astuple getter: (name, value) for a VALUE slot, the name for a VOID slot
astuple_getter(v) ==
  LET names == constrained_names(v)
  IN [i \in 1..Len(names) |->
        IF con_type(names[i]) = "VALUE"
        THEN Entry("pair", names[i], v[names[i]])
        ELSE Entry("str", names[i], PyNone)]

\* Text lines are records: kind "required" is the line "!   <n> more <word>
\* required", kind "name" the line of a VOID slot, kind "value" the line
\* "<name>: <val>" of a VALUE slot, kind "notice" the line "Sorry, this
\* constraint combination is not implemented.", kind "text" any other line.
Line(kind, n, word, name, val) ==
  [kind |-> kind, n |-> n, word |-> word, name |-> name, val |-> val]

\* _report_constraint
report_constraint(v, con) ==
  IF con_type(con) = "VOID"
  THEN Line("name", 0, "", con, PyNone)
  ELSE Line("value", 0, "", con, v[con])

\* Mutant of report_constraints_lines: the wording is always plural.
report_constraints_lines_plural(v) ==
  LET required == 3 - Cardinality(constrained(v))
      names == constrained_names(v)
      head == IF required = 0 THEN << >>
              ELSE << Line("required", required, "constraints", "", PyNone) >>
  IN head \o [i \in 1..Len(names) |-> report_constraint(v, names[i])]

\* _report_constraints_lines
report_constraints_lines(v) ==
  LET required == 3 - Cardinality(constrained(v))
      names == constrained_names(v)
      head == IF required = 0 THEN << >>
              ELSE IF required = 1
              THEN << Line("required", 1, "constraint", "", PyNone) >>
              ELSE << Line("required", required, "constraints", "", PyNone) >>
  IN head \o [i \in 1..Len(names) |-> report_constraint(v, names[i])]

\* _build_display_table_lines: the header, the underline, and one row for
\* each position of the three columns; a cell is the marker of an active
\* slot and the slot's name, both empty past the end of a column.
Column(cat) == SelectSeq(all, LAMBDA con : con_category(con) = cat)

build_display_table_lines(v) ==
  LET constraint_types == << Column("DETECTOR"), Column("REFERENCE"), Column("SAMPLE") >>
      longest == CHOOSE n \in 0..Len(all) :
                   /\ \A i \in 1..3 : Len(constraint_types[i]) <= n
                   /\ \E i \in 1..3 : Len(constraint_types[i]) = n
      cell(i, row) ==
        IF row > Len(constraint_types[i]) THEN << "   ", "" >>
        ELSE LET con == constraint_types[i][row]
             IN << IF active(v, con) THEN "-->" ELSE "   ", con >>
  IN << [kind |-> "header", cells |-> << "DET", "REF", "SAMP" >>],
        [kind |-> "underline", cells |-> << "-", "-", "-" >>] >>
     \o [row \in 1..longest |->
          [kind |-> "row", cells |-> [i \in 1..3 |-> cell(i, row)]]]

Blank == [kind |-> "blank"]

Notice == [kind |-> "notice"]

\* Mutant of str: the mode is classified without asking first whether
\* three slots are active.
str_unguarded(v) ==
  LET lines == build_display_table_lines(v) \o << Blank >>
               \o report_constraints_lines(v) \o << Blank >>
      r == is_current_mode_implemented(v)
  IN IF r.exc # "None" THEN Raise(v, r.exc, r.msg) @@ [lines |-> << >>]
     ELSE Ok(v) @@ [lines |-> IF r.ret = PyFalse THEN Append(lines, Notice) ELSE lines]

\* __str__
str(v) ==
  LET lines == build_display_table_lines(v) \o << Blank >>
               \o report_constraints_lines(v) \o << Blank >>
  IN IF ~is_fully_constrained(v, NoCon) THEN Ok(v) @@ [lines |-> lines]
     ELSE LET r == is_current_mode_implemented(v)
          IN IF r.exc # "None" THEN Raise(v, r.exc, r.msg) @@ [lines |-> << >>]
             ELSE Ok(v) @@ [lines |-> IF r.ret = PyFalse THEN Append(lines, Notice)
                                      ELSE lines]

\* The keys of a mapping are distinct.
DistinctNames(items) ==
  \A i, j \in 1..Len(items) : i # j => items[i].name # items[j].name

---------------------------------------------------------------------------
\* The record of the last call: what was called, with what, on which slot
\* values (pre), and how it ended.

Idle ==
  [op |-> "idle", name |-> "", val |-> PyNone, inp |-> << >>, pre |-> fresh,
   ret |-> PyNone, exc |-> "None", msg |-> "", at |-> 0]

Called(op, name, val, inp, pre, r) ==
  [op |-> op, name |-> name, val |-> val, inp |-> inp, pre |-> pre,
   ret |-> r.ret, exc |-> r.exc, msg |-> r.msg, at |-> r.at]

Call(op, name, val, inp, r) ==
  /\ last.op = "idle"
  /\ value' = r.value
  /\ last' = Called(op, name, val, inp, value, r)
  /\ UNCHANGED <<crystal, reference>>

\* cons = Constraints()
InitEmpty ==
  /\ value = fresh
  /\ last = Idle

\* cons = Constraints(); cons.asdict = items
InitAsdict ==
  \E k \in 0..MaxImportLen : \E items \in [1..k -> DictEntries] :
    /\ DistinctNames(items)
    /\ value = asdict_setter(fresh, items).value
    /\ last = Called("asdict", "", PyNone, items, fresh, asdict_setter(fresh, items))

\* cons = Constraints(); cons.astuple = els
InitAstuple ==
  \E k \in 0..MaxImportLen : \E els \in [1..k -> TupleEntries] :
    /\ value = astuple_setter(fresh, els).value
    /\ last = Called("astuple", "", PyNone, els, fresh, astuple_setter(fresh, els))

Init ==
  /\ crystal = NoCrystal
  /\ reference = NoReference
  /\ (InitEmpty \/ InitAsdict \/ InitAstuple)

\* cons.<name> = val
Set ==
  \E n \in Names, val \in InVals :
    Call("set", n, val, << >>, set_factory(value, n, val))

\* del cons.<name>
Unset ==
  \E n \in Names :
    Call("unset", n, PyNone, << >>, Ok(deleter(value, n)))

\* cons.clear()
Clear == Call("clear", "", PyNone, << >>, Ok(clear(value)))

\* cons.is_current_mode_implemented()
IsCurrentModeImplemented ==
  Call("is_current_mode_implemented", "", PyNone, << >>, is_current_mode_implemented(value))

\* str(cons)
Str ==
  Call("str", "", PyNone, << >>, str(value))

\* The call has returned or raised to its caller, which goes on; after a
\* constructor that raised there is no object to go on with.
Return ==
  /\ last.op # "idle"
  /\ ~(last.op = "new" /\ last.exc # "None")
  /\ last' = Idle
  /\ UNCHANGED <<value, crystal, reference>>

Next == Set \/ Unset \/ Clear \/ IsCurrentModeImplemented \/ Str \/ Return

Spec == Init /\ [][Next]_vars

---------------------------------------------------------------------------
\* Construction from a collection, and the bulk setters called on an object
\* that already holds constraints.  The collections have up to three entries
\* over a few slots of every category and kind, and one invalid name.

\* len(self.constrained) >= 3: a full set has three slots, and the
\* collections given here have no more entries than that.
FullLen == 3

BulkNames == {"delta", "a_eq_b", "alpha", "mu", "bisect", "foo"}

BulkDictEntries ==
  {Entry("item", n, val) : n \in BulkNames, val \in {PyTrue} \cup {Float(x) : x \in NumVals}}

BulkTupleEntries ==
  {Entry("pair", n, Float(x)) : n \in BulkNames, x \in NumVals}
    \cup {Entry("str", n, PyNone) : n \in BulkNames}

\* The elements of a set are distinct.
DistinctElements(els) ==
  \A i, j \in 1..Len(els) : i # j => els[i] # els[j]

\* Mutant of new: a list or a set is not accepted.
new_dict_or_tuple(form, inp) ==
  IF form = "dict" THEN asdict_setter(fresh, inp)
  ELSE IF form = "tuple" THEN astuple_setter(fresh, inp)
  ELSE Raise(fresh, "DiffcalcException", "Invalid constraint parameter type")

\* Constraints(constraints): the dispatch on the type of the argument.  The
\* argument is given as the sequence of its entries in iteration order.
new(form, inp) ==
  IF form = "dict" THEN asdict_setter(fresh, inp)
  ELSE IF form = "tuple" THEN astuple_setter(fresh, inp)
  ELSE IF form \in {"list", "set"} THEN astuple_setter(fresh, inp)
  ELSE Raise(fresh, "DiffcalcException", "Invalid constraint parameter type")

\* cons = Constraints(constraints)
InitNew ==
  \E form \in {"dict", "tuple", "list", "set", "str"} :
    \E k \in 0..FullLen :
      \E inp \in [1..k -> IF form = "dict" THEN BulkDictEntries ELSE BulkTupleEntries] :
        /\ form = "dict" => DistinctNames(inp)
        /\ form = "set" => DistinctElements(inp)
        /\ form = "str" => k = 0
        /\ value = new(form, inp).value
        /\ last = Called("new", form, PyNone, inp, fresh, new(form, inp))

InitBulk ==
  /\ crystal = NoCrystal
  /\ reference = NoReference
  /\ (InitEmpty \/ InitNew)

\* cons.asdict = items
SetAsdict ==
  /\ last.op = "idle"
  /\ \E k \in 0..FullLen : \E items \in [1..k -> BulkDictEntries] :
       /\ DistinctNames(items)
       /\ Call("asdict", "", PyNone, items, asdict_setter(value, items))

\* cons.astuple = els
SetAstuple ==
  /\ last.op = "idle"
  /\ \E k \in 0..FullLen : \E els \in [1..k -> BulkTupleEntries] :
       Call("astuple", "", PyNone, els, astuple_setter(value, els))

NextBulk == SetAsdict \/ SetAstuple \/ Return

SpecBulk == InitBulk /\ [][NextBulk]_vars

---------------------------------------------------------------------------
\* diffcalc.ub.crystal: LatticeParams and the constructor of Crystal.
\* Lengths are plain floats.  Angles are given as floats in degrees and kept
\* as Quantity in the canonical unit, degrees.

\* The float d * pi / 180: pi / 2 is PiFloat(90), 2 * pi / 3 is PiFloat(120)
PiFloat(d) == [t |-> "pifloat", m |-> d]

\* ureg.Quantity(x, "rad").to(unit) for a plain float x that is no such
\* fraction of pi: x radians, expressed in degrees
RadQuantity(x) == [t |-> "RadQuantity", m |-> x]

\* The magnitude of RadQuantity(x): the float x * 180 / pi
RadFloat(x) == [t |-> "radfloat", m |-> x]

\* An attribute that was never assigned
Unassigned == [t |-> "unassigned", m |-> 0]

CellLengths == {PyNone} \cup {Float(x) : x \in NumVals}

CellAngles == {PyNone, Float(0), Float(60), Float(90), Float(180)}

\* system=None
NoSystem == "None"

Tags ==
  {NoSystem, "Triclinic", "Monoclinic", "Orthorhombic", "Tetragonal",
   "Hexagonal", "Rhombohedral", "Cubic", "Quartic"}

\* LatticeParams.__post_init__ for one angle
post_init(angle_value) ==
  IF angle_value = PyNone THEN PyNone
  ELSE IF angle_value.t \in {"Quantity", "RadQuantity"} THEN angle_value
  ELSE IF angle_value.t = "radfloat" THEN RadQuantity(angle_value.m)
  ELSE Quantity(angle_value.m)

LatticeParams(a, b, c, alpha, beta, gamma, system) ==
  [a |-> a, b |-> b, c |-> c, alpha |-> post_init(alpha),
   beta |-> post_init(beta), gamma |-> post_init(gamma), system |-> system]

\* angle.magnitude if isinstance(angle, Quantity) else angle
magnitude(angle) ==
  IF angle.t = "Quantity" THEN Float(angle.m)
  ELSE IF angle.t = "RadQuantity" THEN RadFloat(angle.m)
  ELSE angle

\* LatticeParams.asdict
LatticeParams_asdict(params) ==
  [a |-> params.a, b |-> params.b, c |-> params.c,
   alpha |-> magnitude(params.alpha), beta |-> magnitude(params.beta),
   gamma |-> magnitude(params.gamma), system |-> params.system]

\* Mutant of system_mappings: Tetragonal is registered before Hexagonal.
system_mappings_tetragonal_first ==
  << "Monoclinic", "Orthorhombic", "Tetragonal", "Hexagonal", "Rhombohedral", "Cubic" >>

\* The keys of system_mappings in the order of the dict literal
system_mappings ==
  << "Monoclinic", "Orthorhombic", "Hexagonal", "Rhombohedral", "Tetragonal", "Cubic" >>

\* len(signature(method).parameters) of the cell method of a system
parameters(system) ==
  CASE system = "Monoclinic" -> 4
    [] system = "Orthorhombic" -> 3
    [] system = "Hexagonal" -> 2
    [] system = "Rhombohedral" -> 2
    [] system = "Tetragonal" -> 2
    [] system = "Cubic" -> 1

\* The dict comprehension over system_mappings.items(): a later system
\* replaces an earlier one with the same number of parameters
RECURSIVE required_lengths_from(_, _)
required_lengths_from(d, i) ==
  IF i > Len(system_mappings) THEN d
  ELSE LET system == system_mappings[i]
           n == parameters(system)
       IN required_lengths_from(
            [k \in DOMAIN d \cup {n} |-> IF k = n THEN system ELSE d[k]], i + 1)

\* required_lengths, with required_lengths[6] = "Triclinic"
required_lengths ==
  LET d == required_lengths_from([k \in {} |-> ""], 1)
  IN [k \in DOMAIN d \cup {6} |-> IF k = 6 THEN "Triclinic" ELSE d[k]]

\* non_null_params
non_null_params(params) ==
  SelectSeq(<< params.a, params.b, params.c, params.alpha, params.beta, params.gamma >>,
            LAMBDA entry : entry # PyNone)

\* Mutant of system_method: the hexagonal cell gets gamma = pi / 2.
system_method_hexagonal_square(system, p) ==
  CASE system = "Monoclinic" -> << p[1], p[2], p[3], PiFloat(90), p[4], PiFloat(90) >>
    [] system = "Orthorhombic" -> << p[1], p[2], p[3], PiFloat(90), PiFloat(90), PiFloat(90) >>
    [] system = "Tetragonal" -> << p[1], p[1], p[2], PiFloat(90), PiFloat(90), PiFloat(90) >>
    [] system = "Hexagonal" -> << p[1], p[1], p[2], PiFloat(90), PiFloat(90), PiFloat(90) >>
    [] system = "Rhombohedral" -> << p[1], p[1], p[1], p[2], p[2], p[2] >>
    [] system = "Cubic" -> << p[1], p[1], p[1], PiFloat(90), PiFloat(90), PiFloat(90) >>

\* system_method(*non_null_params): the _set_<system>_cell methods
system_method(system, p) ==
  CASE system = "Monoclinic" -> << p[1], p[2], p[3], PiFloat(90), p[4], PiFloat(90) >>
    [] system = "Orthorhombic" -> << p[1], p[2], p[3], PiFloat(90), PiFloat(90), PiFloat(90) >>
    [] system = "Tetragonal" -> << p[1], p[1], p[2], PiFloat(90), PiFloat(90), PiFloat(90) >>
    [] system = "Hexagonal" -> << p[1], p[1], p[2], PiFloat(90), PiFloat(90), PiFloat(120) >>
    [] system = "Rhombohedral" -> << p[1], p[1], p[1], p[2], p[2], p[2] >>
    [] system = "Cubic" -> << p[1], p[1], p[1], PiFloat(90), PiFloat(90), PiFloat(90) >>

\* ureg.Quantity(angle, "rad").to(unit)
rad_to_unit(angle) ==
  IF angle.t = "Quantity" THEN angle
  ELSE IF angle.t = "pifloat" THEN Quantity(angle.m)
  ELSE RadQuantity(angle.m)

\* The outcome of the constructor: the object, or the exception raised
Constructed(c) == [crystal |-> c, exc |-> "None", msg |-> ""]

Failed(exc, msg) == [crystal |-> NoCrystal, exc |-> exc, msg |-> msg]

\* sin(angle) == 0.0
sin_is_zero(angle) == angle.t \in {"Quantity", "RadQuantity"} /\ angle.m = 0

\* acos or sqrt is given a value outside its domain: with an angle of 180
\* degrees (pi, whose sin is 1.2e-16) the argument of acos exceeds 1 in a
\* rhombohedral cell, and that of sqrt is negative in a monoclinic cell.
math_domain_error(c) ==
  \E angle \in {c.alpha, c.beta, c.gamma} : angle = Quantity(180)

\* _set_reciprocal_cell.  With an angle Quantity stored as a length, whether
\* np.array accepts the Quantity entries of B is up to pint and numpy: both
\* outcomes are kept.  The other angles offered here keep acos and sqrt in
\* domain.
set_reciprocal_cell(c) ==
  IF c.a = Unassigned
  THEN {Failed("AttributeError", "object has no attribute 'a'")}
  ELSE IF sin_is_zero(c.alpha) \/ sin_is_zero(c.beta) \/ sin_is_zero(c.gamma)
  THEN {Failed("DiffcalcException", "Error setting reciprocal cell")}
  ELSE IF math_domain_error(c)
  THEN {Failed("ValueError", "math domain error")}
  ELSE IF \E l \in {c.a, c.b, c.c} : l.t # "float"
  THEN {Constructed(c), Failed("TypeError", "B matrix")}
  ELSE {Constructed(c)}

\* The first part of Crystal.__init__: the system, or the exception raised
resolve_system(params) ==
  LET n == Len(non_null_params(params))
  IN IF params.system = NoSystem
     THEN IF n \in DOMAIN required_lengths
          THEN [system |-> required_lengths[n], exc |-> "None", msg |-> ""]
          ELSE [system |-> "", exc |-> "DiffcalcException", msg |-> "no such system"]
     ELSE IF params.system \notin {system_mappings[i] : i \in 1..Len(system_mappings)}
               /\ params.system # "Triclinic"
     THEN [system |-> "", exc |-> "DiffcalcException", msg |-> "Provided crystal system is invalid"]
     ELSE LET minimum_length ==
                IF params.system # "Triclinic" THEN parameters(params.system) ELSE 6
          IN IF n # minimum_length /\ n # 6
             THEN [system |-> "", exc |-> "DiffcalcException", msg |-> "do not match specified system"]
             ELSE [system |-> params.system, exc |-> "None", msg |-> ""]

\* Crystal.__init__(name, params): the set of its outcomes
Crystal(name, params) ==
  LET r == resolve_system(params)
      p == non_null_params(params)
      unset == [name |-> name, a |-> Unassigned, b |-> Unassigned, c |-> Unassigned,
                alpha |-> Unassigned, beta |-> Unassigned, gamma |-> Unassigned,
                system |-> ""]
  IN IF r.exc # "None" THEN {Failed(r.exc, r.msg)}
     ELSE LET cell == system_method(r.system, p)
              c1 == IF Len(p) < 6
                    THEN [unset EXCEPT !.a = cell[1], !.b = cell[2], !.c = cell[3],
                                       !.alpha = rad_to_unit(cell[4]),
                                       !.beta = rad_to_unit(cell[5]),
                                       !.gamma = rad_to_unit(cell[6])]
                    ELSE unset
          IN set_reciprocal_cell([c1 EXCEPT !.system = r.system])

\* Crystal.asdict: the name, the asdict of a LatticeParams made of the six
\* cell values, and the system
Crystal_asdict(c) ==
  LET d == LatticeParams_asdict(LatticeParams(c.a, c.b, c.c, c.alpha, c.beta, c.gamma, NoSystem))
  IN [name |-> c.name, a |-> d.a, b |-> d.b, c |-> d.c,
      alpha |-> d.alpha, beta |-> d.beta, gamma |-> d.gamma, system |-> c.system]

\* Mutant of get_lattice_params: the monoclinic tuple ends with alpha.
get_lattice_params_monoclinic_alpha(c) ==
  CASE c.system = "Triclinic" -> [ret |-> << c.a, c.b, c.c, c.alpha, c.beta, c.gamma >>, exc |-> "None"]
    [] c.system = "Monoclinic" -> [ret |-> << c.a, c.b, c.c, c.alpha >>, exc |-> "None"]
    [] c.system = "Orthorhombic" -> [ret |-> << c.a, c.b, c.c >>, exc |-> "None"]
    [] c.system = "Tetragonal" -> [ret |-> << c.a, c.c >>, exc |-> "None"]
    [] c.system = "Hexagonal" -> [ret |-> << c.a, c.c >>, exc |-> "None"]
    [] c.system = "Rhombohedral" -> [ret |-> << c.a, c.alpha >>, exc |-> "None"]
    [] c.system = "Cubic" -> [ret |-> << c.a >>, exc |-> "None"]
    [] OTHER -> [ret |-> << >>, exc |-> "DiffcalcException"]

\* Crystal.get_lattice_params: the tuple of system_mappings[self.system], or
\* DiffcalcException for the KeyError
get_lattice_params(c) ==
  CASE c.system = "Triclinic" -> [ret |-> << c.a, c.b, c.c, c.alpha, c.beta, c.gamma >>, exc |-> "None"]
    [] c.system = "Monoclinic" -> [ret |-> << c.a, c.b, c.c, c.beta >>, exc |-> "None"]
    [] c.system = "Orthorhombic" -> [ret |-> << c.a, c.b, c.c >>, exc |-> "None"]
    [] c.system = "Tetragonal" -> [ret |-> << c.a, c.c >>, exc |-> "None"]
    [] c.system = "Hexagonal" -> [ret |-> << c.a, c.c >>, exc |-> "None"]
    [] c.system = "Rhombohedral" -> [ret |-> << c.a, c.alpha >>, exc |-> "None"]
    [] c.system = "Cubic" -> [ret |-> << c.a >>, exc |-> "None"]
    [] OTHER -> [ret |-> << >>, exc |-> "DiffcalcException"]

\* params = LatticeParams(a, b, c, alpha, beta, gamma, system)
InitCrystal ==
  \E a, b, c \in CellLengths, alpha, beta, gamma \in CellAngles, system \in Tags :
    /\ value = fresh
    /\ crystal = NoCrystal
    /\ reference = NoReference
    /\ last = [Idle EXCEPT !.op = "LatticeParams",
                           !.inp = LatticeParams(a, b, c, alpha, beta, gamma, system)]

\* Crystal("xtal", params)
NewCrystal ==
  /\ last.op = "LatticeParams"
  /\ \E r \in Crystal("xtal", last.inp) :
       /\ crystal' = r.crystal
       /\ last' = [last EXCEPT !.op = "Crystal", !.name = "xtal", !.exc = r.exc, !.msg = r.msg]
  /\ UNCHANGED <<value, reference>>

\* xtal.get_lattice_params()
GetLatticeParams ==
  /\ last.op = "Crystal"
  /\ last.exc = "None"
  /\ LET r == get_lattice_params(crystal)
     IN last' = [last EXCEPT !.op = "get_lattice_params", !.ret = r.ret, !.exc = r.exc]
  /\ UNCHANGED <<value, crystal, reference>>

NextCrystal == NewCrystal \/ GetLatticeParams

SpecCrystal == InitCrystal /\ [][NextCrystal]_vars

---------------------------------------------------------------------------
\* Reference reflections and orientations (ub/reference.py).  A
\* ReflectionList keeps Reflection entries in the Python list
\* self.reflections, an OrientationList keeps Orientation entries in
\* self.orientations; the methods of the two classes are the same code with
\* the list and the entry class exchanged, and the operators below stand for
\* both.  Python lists count from 0, sequences here count from 1.

MaxRefs == 2

\* The float degrees(radians(d)), which need not be the float d
DegPiFloat(d) == [t |-> "degpifloat", m |-> d]

\* math.radians
radians(x) == IF x.t = "float" THEN PiFloat(x.m) ELSE [t |-> "radians", m |-> x.m]

\* math.degrees
degrees(x) ==
  IF x.t = "float" THEN RadFloat(x.m)
  ELSE IF x.t = "pifloat" THEN DegPiFloat(x.m)
  ELSE [t |-> "degrees", m |-> x.m]

\* Position(...): the angles of a diffractometer position, in field order
Positions == {<< Float(0), Float(60), Float(0), Float(30), Float(0), Float(0) >>}

Hkls == {<< 1, 0, 0 >>, << 0, 1, 0 >>}

Xyzs == {<< 0, 0, 1 >>}

Energies == {12}

RefTags == {"refl1", "refl2"}

\* The arguments of add and edit: (hkl, pos, energy, tag) for a
\* ReflectionList, (hkl, xyz, pos, tag) for an OrientationList
EntryArgs(cls) ==
  IF cls = "ReflectionList"
  THEN [hkl : Hkls, pos : Positions, energy : Energies, tag : RefTags]
  ELSE [hkl : Hkls, xyz : Xyzs, pos : Positions, tag : RefTags]

\* Reflection(*hkl, use_pos, energy, tag)
Reflection(hkl, pos, energy, tag) ==
  [h |-> hkl[1], k |-> hkl[2], l |-> hkl[3], pos |-> pos, energy |-> energy, tag |-> tag]

\* Orientation(*hkl, *xyz, use_pos, tag)
Orientation(hkl, xyz, pos, tag) ==
  [h |-> hkl[1], k |-> hkl[2], l |-> hkl[3], x |-> xyz[1], y |-> xyz[2], z |-> xyz[3],
   pos |-> pos, tag |-> tag]

\* An index argument: an integer or a tag
IntIdx(i) == [kind |-> "int", i |-> i, tag |-> ""]

TagIdx(tag) == [kind |-> "str", i |-> 0, tag |-> tag]

Indices == {IntIdx(i) : i \in -1..MaxRefs + 1} \cup {TagIdx(tag) : tag \in RefTags}

\* The outcomes of a method: the list after it, what it returned or raised.
RefOk(refs, ret) == [reflections |-> refs, ret |-> ret, exc |-> "None", msg |-> "", at |-> 0]

RefRaise(refs, exc, msg) ==
  [reflections |-> refs, ret |-> PyNone, exc |-> exc, msg |-> msg, at |-> 0]

\* The place in the sequence that the Python list index num stands for, 0
\* when list[num] raises IndexError: a negative num counts from the end.
list_position(refs, num) ==
  LET k == IF num < 0 THEN num + Len(refs) ELSE num
  IN IF 0 <= k /\ k < Len(refs) THEN k + 1 ELSE 0

\* Mutant of get_tag_index: the last entry with the tag is found.
get_tag_index_last(refs, tag) ==
  IF \E i \in 1..Len(refs) : refs[i].tag = tag
  THEN (CHOOSE i \in 1..Len(refs) :
          refs[i].tag = tag /\ \A j \in (i + 1)..Len(refs) : refs[j].tag # tag) - 1
  ELSE -1

\* get_tag_index: _tag_list.index(tag), -1 standing for its ValueError
get_tag_index(refs, tag) ==
  IF \E i \in 1..Len(refs) : refs[i].tag = tag
  THEN (CHOOSE i \in 1..Len(refs) :
          refs[i].tag = tag /\ \A j \in 1..(i - 1) : refs[j].tag # tag) - 1
  ELSE -1

\* The 'if isinstance(idx, str): ... else: num = idx - 1' of every method
tag_missing(refs, idx) == idx.kind = "str" /\ get_tag_index(refs, idx.tag) = -1

num_of(refs, idx) == IF idx.kind = "str" THEN get_tag_index(refs, idx.tag) ELSE idx.i - 1

\* use_pos: the position converted to radians when the list is in degrees
use_pos(indegrees, pos) ==
  IF indegrees THEN [i \in 1..Len(pos) |-> radians(pos[i])] ELSE pos

new_entry(cls, indegrees, args) ==
  IF cls = "ReflectionList"
  THEN Reflection(args.hkl, use_pos(indegrees, args.pos), args.energy, args.tag)
  ELSE Orientation(args.hkl, args.xyz, use_pos(indegrees, args.pos), args.tag)

\* add_reflection, add_orientation
add_reflection(cls, refs, indegrees, args) ==
  RefOk(Append(refs, new_entry(cls, indegrees, args)), PyNone)

\* edit_reflection, edit_orientation
edit_reflection(cls, refs, indegrees, idx, args) ==
  IF tag_missing(refs, idx) THEN RefRaise(refs, "ValueError", "is not in list")
  ELSE LET p == list_position(refs, num_of(refs, idx))
       IN IF p = 0 THEN RefRaise(refs, "IndexError", "list assignment index out of range")
          ELSE RefOk([refs EXCEPT ![p] = new_entry(cls, indegrees, args)], PyNone)

\* get_reflection, get_orientation
get_reflection(refs, indegrees, idx) ==
  IF tag_missing(refs, idx) THEN RefRaise(refs, "ValueError", "is not in list")
  ELSE LET p == list_position(refs, num_of(refs, idx))
       IN IF p = 0 THEN RefRaise(refs, "IndexError", "list index out of range")
          ELSE IF indegrees
          THEN RefOk(refs, [refs[p] EXCEPT
                              !.pos = [i \in 1..Len(@) |-> degrees(@[i])]])
          ELSE RefOk(refs, refs[p])

\* remove_reflection, remove_orientation
remove_reflection(refs, idx) ==
  IF tag_missing(refs, idx) THEN RefRaise(refs, "ValueError", "is not in list")
  ELSE LET p == list_position(refs, num_of(refs, idx))
       IN IF p = 0 THEN RefRaise(refs, "IndexError", "list assignment index out of range")
          ELSE RefOk(SubSeq(refs, 1, p - 1) \o SubSeq(refs, p + 1, Len(refs)), PyNone)

\* swap_reflections, swap_orientations
swap_reflections(refs, idx1, idx2) ==
  IF tag_missing(refs, idx1) \/ tag_missing(refs, idx2)
  THEN RefRaise(refs, "ValueError", "is not in list")
  ELSE LET p1 == list_position(refs, num_of(refs, idx1))
           p2 == list_position(refs, num_of(refs, idx2))
       IN IF p1 = 0 \/ p2 = 0 THEN RefRaise(refs, "IndexError", "list index out of range")
          ELSE RefOk([refs EXCEPT ![p1] = refs[p2], ![p2] = refs[p1]], PyNone)

\* A call of a method of the list
CallReference(op, inp, r) ==
  /\ last' = Called(op, reference.cls, PyNone, inp, reference, r)
  /\ reference' = [reference EXCEPT !.reflections = r.reflections]
  /\ UNCHANGED <<value, crystal>>

\* ReflectionList(indegrees=...), OrientationList(indegrees=...)
InitReference ==
  /\ value = fresh
  /\ crystal = NoCrystal
  /\ last = Idle
  /\ \E cls \in {"ReflectionList", "OrientationList"}, indegrees \in BOOLEAN :
       reference = [cls |-> cls, indegrees |-> indegrees, reflections |-> << >>,
                    second |-> NoSecond]

AddReflection ==
  /\ last.op = "idle"
  /\ Len(reference.reflections) < MaxRefs
  /\ \E args \in EntryArgs(reference.cls) :
       CallReference("add", [args |-> args],
         add_reflection(reference.cls, reference.reflections, reference.indegrees, args))

EditReflection ==
  /\ last.op = "idle"
  /\ \E idx \in Indices, args \in EntryArgs(reference.cls) :
       CallReference("edit", [idx |-> idx, args |-> args],
         edit_reflection(reference.cls, reference.reflections, reference.indegrees, idx, args))

GetReflection ==
  /\ last.op = "idle"
  /\ \E idx \in Indices :
       CallReference("get", [idx |-> idx],
         get_reflection(reference.reflections, reference.indegrees, idx))

RemoveReflection ==
  /\ last.op = "idle"
  /\ \E idx \in Indices :
       CallReference("remove", [idx |-> idx], remove_reflection(reference.reflections, idx))

SwapReflections ==
  /\ last.op = "idle"
  /\ \E idx1, idx2 \in Indices :
       CallReference("swap", [idx |-> idx1, idx2 |-> idx2],
         swap_reflections(reference.reflections, idx1, idx2))

NextReference ==
  AddReflection \/ EditReflection \/ GetReflection \/ RemoveReflection
    \/ SwapReflections \/ Return

SpecReference == InitReference /\ [][NextReference]_vars

---------------------------------------------------------------------------
\* Two list objects: the first, and a second one made from the first's
\* serialised form.

\* __init__: 'self.reflections = reflections if reflections else []'.  A
\* list that is not empty is kept as the object's own list, the same Python
\* list object as the caller's; an empty one is replaced by a new list.
init_reflections(data) ==
  IF data # << >> THEN [shared |-> TRUE, reflections |-> << >>]
  ELSE [shared |-> FALSE, reflections |-> << >>]

\* fromdict(data, indegrees): cls(data, indegrees=indegrees), with data the
\* asdict of the first object, which is its self.reflections
fromdict(ref, indegrees) ==
  LET made == init_reflections(ref.reflections)
  IN [ref EXCEPT !.second = [state |-> IF made.shared THEN "shared" ELSE "own",
                             indegrees |-> indegrees,
                             reflections |-> made.reflections]]

\* The list an object holds, and its indegrees
list_of(ref, obj) ==
  IF obj = "first" \/ ref.second.state = "shared" THEN ref.reflections
  ELSE ref.second.reflections

indegrees_of(ref, obj) == IF obj = "first" THEN ref.indegrees ELSE ref.second.indegrees

\* The objects there are
Objects == {"first"} \cup (IF reference.second.state = "none" THEN {} ELSE {"second"})

SharedIndices == {IntIdx(i) : i \in 1..MaxRefs}

\* A call of a method of one of the two objects: the list the object holds
\* is the one changed
CallEither(op, obj, inp, r) ==
  /\ last' = Called(op, obj, PyNone, inp, reference, r)
  /\ reference' = IF obj = "first" \/ reference.second.state = "shared"
                  THEN [reference EXCEPT !.reflections = r.reflections]
                  ELSE [reference EXCEPT !.second.reflections = r.reflections]
  /\ UNCHANGED <<value, crystal>>

\* second = ReflectionList.fromdict(first.asdict, indegrees)
Fromdict ==
  /\ last.op = "idle"
  /\ reference.second.state = "none"
  /\ \E indegrees \in BOOLEAN :
       /\ reference' = fromdict(reference, indegrees)
       /\ last' = [Idle EXCEPT !.op = "fromdict", !.name = "second", !.pre = reference]
  /\ UNCHANGED <<value, crystal>>

AddEither ==
  /\ last.op = "idle"
  /\ \E obj \in Objects, args \in EntryArgs(reference.cls) :
       /\ Len(list_of(reference, obj)) < MaxRefs
       /\ CallEither("add", obj, [args |-> args],
            add_reflection(reference.cls, list_of(reference, obj),
                           indegrees_of(reference, obj), args))

EditEither ==
  /\ last.op = "idle"
  /\ \E obj \in Objects, idx \in SharedIndices, args \in EntryArgs(reference.cls) :
       CallEither("edit", obj, [idx |-> idx, args |-> args],
         edit_reflection(reference.cls, list_of(reference, obj),
                         indegrees_of(reference, obj), idx, args))

RemoveEither ==
  /\ last.op = "idle"
  /\ \E obj \in Objects, idx \in SharedIndices :
       CallEither("remove", obj, [idx |-> idx],
         remove_reflection(list_of(reference, obj), idx))

SwapEither ==
  /\ last.op = "idle"
  /\ \E obj \in Objects, idx1, idx2 \in SharedIndices :
       CallEither("swap", obj, [idx |-> idx1, idx2 |-> idx2],
         swap_reflections(list_of(reference, obj), idx1, idx2))

NextShared == Fromdict \/ AddEither \/ EditEither \/ RemoveEither \/ SwapEither \/ Return

SpecShared == InitReference /\ [][NextShared]_vars

---------------------------------------------------------------------------
\* Vocabulary of the properties

Count(v, cat) == Cardinality(of_category(v, cat))

Total(v) == Cardinality(constrained(v))

Numeric(val) == val.t \in {"float", "Quantity"}

\* A value of the slot's kind: a number for VALUE, True for VOID.
Valid(n, val) == IF con_type(n) = "VOID" THEN val = PyTrue ELSE Numeric(val)

\* What a slot reads back after a valid value was set.
Stored(val) == IF val = PyTrue THEN PyTrue ELSE Quantity(val.m)

Raised == last.exc # "None"

---------------------------------------------------------------------------
\* C1: after any sequence of set, unset, clear and bulk setter calls, raising
\* ones included, at most 1 DETECTOR, at most 1 REFERENCE and at most 3
\* SAMPLE slots are active.
C1_CategoryCaps ==
  /\ Count(value, "DETECTOR") <= 1
  /\ Count(value, "REFERENCE") <= 1
  /\ Count(value, "SAMPLE") <= 3

\* A set was refused on a set holding three SAMPLE slots.
C1_Witness ==
  /\ last.op = "set"
  /\ Raised
  /\ Count(value, "SAMPLE") = 3

\* C2: after any sequence of calls, raising ones included, at most three
\* slots are active in total.
C2_TotalAtMostThree == Total(value) <= 3

\* A set on an inactive slot was attempted while three slots were active.
C2_Witness ==
  /\ last.op = "set"
  /\ ~active(last.pre, last.name)
  /\ Total(last.pre) = 3
  /\ Total(value) = 3

\* The table of implemented modes, as the specification lists it.
ModeTable(A) ==
  LET d == {n \in A : con_category(n) = "DETECTOR"}
      r == {n \in A : con_category(n) = "REFERENCE"}
      s == {n \in A : con_category(n) = "SAMPLE"}
      nd == Cardinality(d)
      nr == Cardinality(r)
      ns == Cardinality(s)
  IN \/ /\ ns = 3
        /\ s \in {{"chi", "phi", "eta"}, {"chi", "phi", "mu"},
                  {"chi", "eta", "mu"}, {"phi", "eta", "mu"}}
     \/ /\ nd = 1 /\ nr = 1 /\ ns = 1
        /\ s \in {{"mu"}, {"eta"}, {"chi"}, {"phi"}}
     \/ /\ ns = 2 /\ nr = 1 /\ nd = 0
        /\ s \in {{"chi", "phi"}, {"chi", "eta"}, {"chi", "mu"},
                  {"mu", "eta"}, {"mu", "phi"}, {"eta", "phi"}}
     \/ /\ ns = 2 /\ nd = 1 /\ nr = 0
        /\ s \in {{"chi", "phi"}, {"mu", "eta"}, {"mu", "phi"}, {"mu", "chi"},
                  {"eta", "phi"}, {"eta", "chi"}, {"mu", "bisect"},
                  {"eta", "bisect"}, {"omega", "bisect"}}

C4_OneOfEachAlwaysImplemented ==
  (/\ last.op = "is_current_mode_implemented"
   /\ \A n \in Names : con_type(n) = "VOID" => last.pre[n] \in {PyNone, PyTrue}
   /\ Count(last.pre, "SAMPLE") = 1
   /\ Count(last.pre, "REFERENCE") = 1
   /\ Count(last.pre, "DETECTOR") = 1)
  => last.ret = PyTrue

\* C5: with exactly one DETECTOR (REFERENCE) slot active and fewer than
\* three active in total, setting another slot of that category to a valid
\* value raises nothing, deactivates the slot that was active and leaves the
\* new one holding the value.
C5_ReplaceWithinCategory ==
  (/\ last.op = "set"
   /\ con_category(last.name) \in {"DETECTOR", "REFERENCE"}
   /\ Valid(last.name, last.val)
   /\ Total(last.pre) < 3
   /\ \E m \in Names \ {last.name} :
        of_category(last.pre, con_category(last.name)) = {m})
  => /\ ~Raised
     /\ \A m \in of_category(last.pre, con_category(last.name)) : value[m] = PyNone
     /\ value[last.name] = Stored(last.val)

\* A REFERENCE slot was set while another REFERENCE slot was the only active one.
C5_Witness ==
  /\ last.op = "set"
  /\ ~Raised
  /\ con_category(last.name) = "REFERENCE"
  /\ Count(last.pre, "REFERENCE") = 1
  /\ ~active(last.pre, last.name)
  /\ Total(last.pre) < 3
  /\ active(value, last.name)

\* C6: with three slots active and none of them in the target slot's
\* category, set raises DiffcalcException and the slot does not become active.
C6_QuotaRaises ==
  (/\ last.op = "set"
   /\ Total(last.pre) = 3
   /\ Count(last.pre, con_category(last.name)) = 0)
  => /\ last.exc = "DiffcalcException"
     /\ ~active(value, last.name)

\* Such a set was made and refused.
C6_Witness ==
  /\ last.op = "set"
  /\ Total(last.pre) = 3
  /\ Count(last.pre, con_category(last.name)) = 0
  /\ last.exc = "DiffcalcException"
  /\ last.msg = "Cannot set constraint"

\* C7: in every reachable state, also after a set that raised, a VALUE slot
\* never holds True and a VOID slot holds either None or True, never a number.
C7_KindOfValue ==
  \A n \in Names :
    IF con_type(n) = "VALUE"
    THEN value[n] # PyTrue
    ELSE value[n] \in {PyNone, PyTrue}

\* C8: set on a VALUE slot with True, and set on a VOID slot with a number,
\* raise DiffcalcException; a sequence given to the astuple setter that names
\* a VALUE slot by its bare name does not complete either, and the error
\* raised at that element is a DiffcalcException.
C8_TypeMismatchRaises ==
  /\ (last.op = "set" /\ con_type(last.name) = "VALUE" /\ last.val = PyTrue)
       => last.exc = "DiffcalcException"
  /\ (last.op = "set" /\ con_type(last.name) = "VOID" /\ Numeric(last.val))
       => last.exc = "DiffcalcException"
  /\ last.op = "astuple" =>
       \A i \in 1..Len(last.inp) :
         (/\ last.inp[i].kind = "str"
          /\ last.inp[i].name \in Names
          /\ con_type(last.inp[i].name) = "VALUE")
         => /\ Raised
            /\ last.at <= i
            /\ last.at = i => last.exc = "DiffcalcException"

\* The astuple setter raised on the bare name of a VALUE slot.
C8_Witness ==
  /\ last.op = "astuple"
  /\ last.at >= 1
  /\ last.inp[last.at].kind = "str"
  /\ last.inp[last.at].name \in Names
  /\ con_type(last.inp[last.at].name) = "VALUE"
  /\ last.exc = "DiffcalcException"
  /\ last.msg = "requires numerical value"

\* C9: assigning None to a slot, by set or as the value of an item given to
\* the asdict setter, raises nothing and leaves that slot inactive and every
\* other slot as it was.
C9_NoneAccepted ==
  /\ (last.op = "set" /\ last.val = PyNone)
       => /\ ~Raised
          /\ value = [last.pre EXCEPT ![last.name] = PyNone]
  /\ last.op = "asdict" =>
       \A i \in 1..Len(last.inp) :
         (last.inp[i].name \in Names /\ last.inp[i].val = PyNone)
         => /\ last.at # i
            /\ ~Raised => ~active(value, last.inp[i].name)

\* C10: setting a valid value on a slot that is already active succeeds in
\* every reachable state: the slot holds the new value and the same slots
\* are active as before.
C10_UpdateActiveSlot ==
  (/\ last.op = "set"
   /\ active(last.pre, last.name)
   /\ Valid(last.name, last.val))
  => /\ ~Raised
     /\ value[last.name] = Stored(last.val)
     /\ constrained(value) = constrained(last.pre)

\* C11: is_current_mode_implemented called while fewer than three slots are
\* active raises ValueError "Three constraints required", returns no
\* classification and leaves every slot as it was.
C11_PreconditionError ==
  (last.op = "is_current_mode_implemented" /\ Total(last.pre) < 3)
  => /\ last.exc = "ValueError"
     /\ last.msg = "Three constraints required"
     /\ last.ret = PyNone
     /\ value = last.pre

\* The classifier was called with two active slots and raised.
C11_Witness ==
  /\ last.op = "is_current_mode_implemented"
  /\ Total(last.pre) = 2
  /\ last.exc = "ValueError"
  /\ value = last.pre

\* C12: for each of the 17 slots, a set with a value of the slot's kind on a
\* new object raises nothing, a set with such a value that raises nothing
\* leaves the slot reading back that value, and an unset leaves the slot
\* absent and every other slot as it was.
C12_SetThenUnset ==
  /\ (last.op = "set" /\ Valid(last.name, last.val) /\ last.pre = fresh) => ~Raised
  /\ (last.op = "set" /\ Valid(last.name, last.val) /\ ~Raised)
       => value[last.name] = Stored(last.val)
  /\ last.op = "unset"
       => /\ ~Raised
          /\ value = [last.pre EXCEPT ![last.name] = PyNone]

\* An active slot was unset.
C12_Witness ==
  /\ last.op = "unset"
  /\ active(last.pre, last.name)
  /\ last.pre[last.name] = Stored(Float(1))
  /\ ~active(value, last.name)

\* The declaration order of the slots, as the specification lists it.
DeclarationOrder ==
  << "delta", "nu", "qaz", "naz", "a_eq_b", "alpha", "beta", "psi",
     "bin_eq_bout", "betain", "betaout", "mu", "eta", "chi", "phi", "bisect",
     "omega" >>

Position(n) == CHOOSE i \in 1..Len(DeclarationOrder) : DeclarationOrder[i] = n

\* The entries of an export name exactly the active slots, each once, in
\* declaration order.
ListsActiveInOrder(v, ex) ==
  /\ {ex[i].name : i \in 1..Len(ex)} = constrained(v)
  /\ \A i, j \in 1..Len(ex) : i < j => Position(ex[i].name) < Position(ex[j].name)

\* C17: in every reachable state both exports list exactly the active
\* slots in declaration order, whatever the order in which they were set;
\* the mapping gives each slot's value, the sequence a (name, value) pair
\* for a VALUE slot and the bare name for a VOID slot.
C17_ExportOrder ==
  LET d == asdict_getter(value)
      t == astuple_getter(value)
  IN /\ ListsActiveInOrder(value, d)
     /\ ListsActiveInOrder(value, t)
     /\ \A i \in 1..Len(d) : d[i].val = value[d[i].name]
     /\ \A i \in 1..Len(t) :
          IF con_type(t[i].name) = "VOID"
          THEN t[i].kind = "str"
          ELSE t[i].kind = "pair" /\ t[i].val = value[t[i].name]

\* A VOID slot was set after a slot declared later, and is exported first.
C17_Witness ==
  /\ last.op = "set"
  /\ ~Raised
  /\ last.name = "a_eq_b"
  /\ active(last.pre, "mu")
  /\ astuple_getter(value) = << Entry("str", "a_eq_b", PyNone), Entry("pair", "mu", Quantity(1)) >>

\* C18: clear called in any reachable state raises nothing and leaves all
\* 17 slots absent, so that the exported mapping is empty.
C18_ClearEmpties ==
  last.op = "clear"
  => /\ ~Raised
     /\ \A n \in Names : value[n] = PyNone
     /\ asdict_getter(value) = << >>

\* clear was called on a set with three active slots, omega among them.
C18_Witness ==
  /\ last.op = "clear"
  /\ Total(last.pre) = 3
  /\ active(last.pre, "omega")
  /\ Total(value) = 0

\* C15: a bulk setter given an entry whose name is none of the 17 slot names
\* does not complete, and the error raised at that entry is a
\* DiffcalcException, whatever the name, other attributes of the object
\* included.
C15_UnknownNameRaises ==
  last.op \in {"asdict", "astuple"} =>
    \A i \in 1..Len(last.inp) :
      (last.inp[i].kind # "other" /\ last.inp[i].name \notin Names)
      => /\ Raised
         /\ last.at <= i
         /\ last.at = i => last.exc = "DiffcalcException"

\* C13: in every reachable state, giving the exported mapping to the asdict
\* setter of a Constraints object, or the exported sequence to its astuple
\* setter, raises nothing and leaves that object with the same active slots
\* and values.
C13_ExportImport ==
  LET d == asdict_setter(fresh, asdict_getter(value))
      t == astuple_setter(fresh, astuple_getter(value))
  IN /\ d.exc = "None"
     /\ d.value = value
     /\ t.exc = "None"
     /\ t.value = value

\* The names of the entries of a collection.
NamedIn(inp) == {inp[i].name : i \in 1..Len(inp)}

\* C14: a bulk setter (asdict or astuple) that completes without error leaves
\* the set as the same entries in the same order leave a new object, whatever
\* the set held before, and no slot that was active before and is not named
\* in the entries is active after.
C14_ImportClearsFirst ==
  (last.op \in {"asdict", "astuple"} /\ ~Raised)
  => /\ value = (IF last.op = "asdict" THEN asdict_setter(fresh, last.inp)
                 ELSE astuple_setter(fresh, last.inp)).value
     /\ \A n \in Names :
          (active(last.pre, n) /\ n \notin NamedIn(last.inp)) => ~active(value, n)

\* A bulk setter naming one slot was called on a set with three other active
\* slots and left only the named one active.
C14_Witness ==
  /\ last.op \in {"asdict", "astuple"}
  /\ ~Raised
  /\ Total(last.pre) = 3
  /\ Len(last.inp) = 1
  /\ ~active(last.pre, last.inp[1].name)
  /\ constrained(value) = {last.inp[1].name}

\* The value an entry gives: a bare name stands for True.
EntryVal(e) == IF e.kind = "str" THEN PyTrue ELSE e.val

\* A collection of entries with distinct slot names and values of the slots'
\* kinds that names at most one DETECTOR and one REFERENCE slot and at most
\* three slots.
WithinCaps(inp) ==
  /\ Len(inp) <= 3
  /\ DistinctNames(inp)
  /\ \A i \in 1..Len(inp) : inp[i].name \in Names /\ Valid(inp[i].name, EntryVal(inp[i]))
  /\ Cardinality({n \in NamedIn(inp) : con_category(n) = "DETECTOR"}) <= 1
  /\ Cardinality({n \in NamedIn(inp) : con_category(n) = "REFERENCE"}) <= 1

\* The slots named in the collection hold the values given, the others are
\* absent: the same for every form and order of the collection.
Expected(inp) ==
  [n \in Names |->
     IF n \in NamedIn(inp)
     THEN Stored(EntryVal(inp[CHOOSE i \in 1..Len(inp) : inp[i].name = n]))
     ELSE PyNone]

\* C16: constructing from a collection of entries that names at most one
\* DETECTOR slot, at most one REFERENCE slot and at most three slots, given
\* as a mapping, a tuple, a list or a set and in any order, raises nothing
\* and yields the active slots and values the entries name.
C16_FormAndOrder ==
  (/\ last.op = "new"
   /\ last.name \in {"dict", "tuple", "list", "set"}
   /\ WithinCaps(last.inp))
  => /\ ~Raised
     /\ value = Expected(last.inp)

\* A set of three entries was iterated against the declaration order.
C16_Witness ==
  /\ last.op = "new"
  /\ last.name = "set"
  /\ WithinCaps(last.inp)
  /\ Len(last.inp) = 3
  /\ Position(last.inp[1].name) > Position(last.inp[2].name)
  /\ Position(last.inp[2].name) > Position(last.inp[3].name)
  /\ Total(value) = 3

\* The number of supplied (non-absent) cell values.
Supplied(params) == Len(non_null_params(params))

\* An angle whose sine is zero, among the angles offered.
ZeroSine(angle) == angle \in {Quantity(0), Quantity(180)}

\* No supplied angle has a zero sine.
NonDegenerate(params) ==
  \A angle \in {params.alpha, params.beta, params.gamma} : ~ZeroSine(angle)

\* The first k supplied values (all of them when fewer) are lengths.
LengthsFirst(params, k) ==
  LET p == non_null_params(params)
  IN \A i \in 1..Len(p) : i <= k => p[i].t = "float"

\* The minimal parameter count of each system and how many of these
\* parameters are lengths, as the specification lists them.
MinimalCount ==
  [ Triclinic |-> 6, Monoclinic |-> 4, Orthorhombic |-> 3, Tetragonal |-> 2,
    Hexagonal |-> 2, Rhombohedral |-> 2, Cubic |-> 1 ]

LengthCount ==
  [ Triclinic |-> 3, Monoclinic |-> 3, Orthorhombic |-> 3, Tetragonal |-> 2,
    Hexagonal |-> 2, Rhombohedral |-> 1, Cubic |-> 1 ]

\* The system a count of supplied values stands for, as the specification
\* lists it.
CountTable == [n \in {1, 3, 4, 6} |->
  IF n = 1 THEN "Cubic" ELSE IF n = 3 THEN "Orthorhombic"
  ELSE IF n = 4 THEN "Monoclinic" ELSE "Triclinic"]

\* C19: construction with no system tag gives a lattice whose system follows
\* from the number of supplied values: 1 Cubic, 3 Orthorhombic, 4 Monoclinic,
\* 6 Triclinic; with 0 or 5 supplied values it raises DiffcalcException and
\* gives no lattice (stated for inputs without an angle of zero sine whose lengths
\* are supplied as lengths).
C19_InferredSystem ==
  (/\ last.op = "Crystal"
   /\ last.inp.system = NoSystem
   /\ NonDegenerate(last.inp))
  => LET n == Supplied(last.inp)
     IN /\ n \in {0, 5} => (last.exc = "DiffcalcException" /\ crystal = NoCrystal)
        /\ (n \in DOMAIN CountTable /\ LengthsFirst(last.inp, LengthCount[CountTable[n]]))
             => (~Raised /\ crystal.system = CountTable[n])

\* C20: construction with a system tag raises DiffcalcException when the tag
\* is none of the seven system names, and when the number of supplied values
\* is neither the minimal count of the system nor 6; in every other case it
\* gives a lattice whose system is the tag (stated for inputs without an
\* angle of zero sine whose lengths are supplied as lengths).
C20_TagCheck ==
  (/\ last.op = "Crystal"
   /\ last.inp.system # NoSystem
   /\ NonDegenerate(last.inp))
  => LET tag == last.inp.system
         n == Supplied(last.inp)
     IN IF tag \notin DOMAIN MinimalCount
        THEN last.exc = "DiffcalcException" /\ crystal = NoCrystal
        ELSE IF n # MinimalCount[tag] /\ n # 6
        THEN last.exc = "DiffcalcException" /\ crystal = NoCrystal
        ELSE LengthsFirst(last.inp, LengthCount[tag])
               => (~Raised /\ crystal.system = tag)

\* The six cell values of a lattice.
Cell(c) == << c.a, c.b, c.c, c.alpha, c.beta, c.gamma >>

\* C21: construction with all six cell values supplied, with no tag or with
\* any of the seven system names as tag, raises nothing and gives a lattice
\* whose a, b, c, alpha, beta, gamma are the six supplied values (stated for
\* inputs without an angle of zero sine).
C21_SixValues ==
  (/\ last.op = "Crystal"
   /\ Supplied(last.inp) = 6
   /\ last.inp.system \in {NoSystem} \cup DOMAIN MinimalCount
   /\ NonDegenerate(last.inp))
  => /\ ~Raised
     /\ Cell(crystal) = Cell(last.inp)

\* The names of the supplied fields.
SuppliedFields(params) ==
  {f \in {"a", "b", "c", "alpha", "beta", "gamma"} : params[f] # PyNone}

\* The minimal values of each system, as the specification names them.
MinimalFields ==
  [ Monoclinic |-> {"a", "b", "c", "beta"}, Orthorhombic |-> {"a", "b", "c"},
    Tetragonal |-> {"a", "c"}, Hexagonal |-> {"a", "c"},
    Rhombohedral |-> {"a", "alpha"}, Cubic |-> {"a"} ]

\* The expansion of the minimal values, as the specification lists it,
\* angles in degrees.
Expansion(tag, params) ==
  LET a == params.a
      b == params.b
      c == params.c
      right == Quantity(90)
  IN CASE tag = "Monoclinic" -> << a, b, c, right, params.beta, right >>
       [] tag = "Orthorhombic" -> << a, b, c, right, right, right >>
       [] tag = "Tetragonal" -> << a, a, c, right, right, right >>
       [] tag = "Hexagonal" -> << a, a, c, right, right, Quantity(120) >>
       [] tag = "Rhombohedral" -> << a, a, a, params.alpha, params.alpha, params.alpha >>
       [] tag = "Cubic" -> << a, a, a, right, right, right >>

\* C22: given a system tag and exactly the minimal values of that system,
\* construction raises nothing and gives the six cell values of the
\* expansion table (stated for inputs without an angle of zero sine).
C22_Expansion ==
  (/\ last.op = "Crystal"
   /\ last.inp.system \in DOMAIN MinimalFields
   /\ SuppliedFields(last.inp) = MinimalFields[last.inp.system]
   /\ NonDegenerate(last.inp))
  => /\ ~Raised
     /\ crystal.system = last.inp.system
     /\ Cell(crystal) = Expansion(last.inp.system, last.inp)

\* A hexagonal lattice was constructed from a and c.
C22_Witness ==
  /\ last.op = "Crystal"
  /\ last.inp.system = "Hexagonal"
  /\ SuppliedFields(last.inp) = {"a", "c"}
  /\ crystal.system = "Hexagonal"
  /\ crystal.b = last.inp.a
  /\ crystal.gamma = Quantity(120)

\* C23: for every constructed lattice, constructing again from the
\* serialised mapping (its name as the name, its six cell values and its
\* system as the lattice parameters) raises nothing and gives a lattice
\* with the same system and the same six cell values.
C23_SerialiseAndRebuild ==
  (last.op = "Crystal" /\ ~Raised)
  => LET d == Crystal_asdict(crystal)
     IN \A r \in Crystal(d.name, LatticeParams(d.a, d.b, d.c, d.alpha, d.beta, d.gamma, d.system)) :
          /\ r.exc = "None"
          /\ r.crystal.system = crystal.system
          /\ Cell(r.crystal) = Cell(crystal)

\* C24: construction from the minimal values of a system, one of which is
\* an angle with a zero sine, raises DiffcalcException and gives no lattice.
C24_DegenerateAngle ==
  (/\ last.op = "Crystal"
   /\ last.inp.system \in DOMAIN MinimalFields
   /\ SuppliedFields(last.inp) = MinimalFields[last.inp.system]
   /\ ~NonDegenerate(last.inp))
  => /\ last.exc = "DiffcalcException"
     /\ crystal = NoCrystal

\* C25: the constraint report of a set with n active slots, rendered in any
\* reachable state, starts with the line "3 - n more constraint(s) required"
\* when n < 3, the word being singular exactly when 3 - n = 1, and has no
\* such line when n = 3; then comes exactly one line for each active slot,
\* in declaration order, a VOID slot shown by its bare name.
C25_ReportLines ==
  last.op = "str" =>
    LET lines == report_constraints_lines(last.pre)
        n == Total(last.pre)
        slots == IF n < 3 THEN Tail(lines) ELSE lines
    IN /\ n < 3 =>
            /\ lines # << >>
            /\ lines[1].kind = "required"
            /\ lines[1].n = 3 - n
            /\ lines[1].word = (IF 3 - n = 1 THEN "constraint" ELSE "constraints")
       /\ \A i \in 1..Len(slots) : slots[i].kind \in {"name", "value"}
       /\ Len(slots) = n
       /\ ListsActiveInOrder(last.pre, slots)
       /\ \A i \in 1..Len(slots) :
            (slots[i].kind = "name") = (con_type(slots[i].name) = "VOID")

\* A set of two active slots, a VOID slot among them, was rendered and the
\* report asks for one more constraint.
C25_Witness ==
  /\ last.op = "str"
  /\ ~Raised
  /\ Total(last.pre) = 2
  /\ active(last.pre, "bisect")
  /\ report_constraints_lines(last.pre)[1] = Line("required", 1, "constraint", "", PyNone)
  /\ Len(report_constraints_lines(last.pre)) = 3

\* The lines of the text rendering of the set the call was made on.
Rendering == str(last.pre).lines

HasNotice(lines) == \E i \in 1..Len(lines) : lines[i].kind = "notice"

\* C26: in every reachable state the text rendering is produced without
\* raising, and it ends with the 'not implemented' notice exactly when
\* three slots are active and the mode is not an implemented one.
C26_RenderingNotice ==
  last.op = "str" =>
    /\ ~Raised
    /\ value = last.pre
    /\ HasNotice(Rendering) <=>
         (Total(last.pre) = 3 /\ is_current_mode_implemented(last.pre).ret = PyFalse)
    /\ HasNotice(Rendering) => Rendering[Len(Rendering)].kind = "notice"

\* A set of three active slots that is no implemented mode was rendered,
\* and the rendering carries the notice.
C26_Witness ==
  /\ last.op = "str"
  /\ Total(last.pre) = 3
  /\ HasNotice(Rendering)

\* The caps of the categories.
Cap(cat) == IF cat = "SAMPLE" THEN 3 ELSE 1

\* A set on slot n is blocked: its category is at its cap, or three slots
\* are active.
Blocked(v, n) == Count(v, con_category(n)) >= Cap(con_category(n)) \/ Total(v) = 3

\* C28: whenever a set of a valid value is blocked and the target category
\* holds exactly one active slot, the call raises nothing, that slot is
\* deactivated (when it is not the target itself), the target holds the new
\* value and as many slots are active as before; this also with three slots
\* active.
C28_ReplaceWhenBlocked ==
  (/\ last.op = "set"
   /\ Valid(last.name, last.val)
   /\ Blocked(last.pre, last.name)
   /\ Count(last.pre, con_category(last.name)) = 1)
  => LET m == CHOOSE n \in Names :
                of_category(last.pre, con_category(last.name)) = {n}
     IN /\ ~Raised
        /\ m # last.name => value[m] = PyNone
        /\ value[last.name] = Stored(last.val)
        /\ Total(value) = Total(last.pre)
        /\ \A n \in Names \ {m, last.name} : value[n] = last.pre[n]

\* With one DETECTOR, one REFERENCE and one SAMPLE slot active another
\* SAMPLE slot was set and took the place of the active one.
C28_Witness ==
  /\ last.op = "set"
  /\ ~Raised
  /\ con_category(last.name) = "SAMPLE"
  /\ Count(last.pre, "DETECTOR") = 1
  /\ Count(last.pre, "REFERENCE") = 1
  /\ Count(last.pre, "SAMPLE") = 1
  /\ ~active(last.pre, last.name)
  /\ active(value, last.name)
  /\ Count(value, "SAMPLE") = 1

\* C29: with three slots active of which two or three are SAMPLE slots,
\* setting a further SAMPLE slot that is not active raises
\* DiffcalcException and the slot does not become active.
C29_SampleQuotaRaises ==
  (/\ last.op = "set"
   /\ Total(last.pre) = 3
   /\ Count(last.pre, "SAMPLE") \in {2, 3}
   /\ con_category(last.name) = "SAMPLE"
   /\ ~active(last.pre, last.name))
  => /\ last.exc = "DiffcalcException"
     /\ ~active(value, last.name)
     /\ value = last.pre

\* With two SAMPLE slots and one other slot active a third SAMPLE slot was
\* set and refused.
C29_Witness ==
  /\ last.op = "set"
  /\ Total(last.pre) = 3
  /\ Count(last.pre, "SAMPLE") = 2
  /\ con_category(last.name) = "SAMPLE"
  /\ ~active(last.pre, last.name)
  /\ last.exc = "DiffcalcException"
  /\ last.msg = "Cannot set constraint"

\* What the entries before the one that raised leave when applied in order
\* to a cleared set.
PrecedingApplied ==
  LET preceding == SubSeq(last.inp, 1, last.at - 1)
  IN (IF last.op = "asdict" THEN asdict_setter(fresh, preceding)
      ELSE astuple_setter(fresh, preceding)).value

\* C30: when a bulk setter raises on an entry, the set holds exactly what
\* the entries before that one leave when applied in order to a cleared
\* set: the entry that raised has changed no slot and no later entry was
\* applied.
C30_FailedImport ==
  (/\ last.op \in {"asdict", "astuple"}
   /\ Raised
   /\ last.at >= 1)
  => value = PrecedingApplied

\* The integer indices given to the call.
IntIndices ==
  {i \in {last.inp.idx} \cup (IF last.op = "swap" THEN {last.inp.idx2} ELSE {}) :
     i.kind = "int"}

\* Every tag given to the call as an index is the tag of an entry.
TagsPresent ==
  \A i \in {last.inp.idx} \cup (IF last.op = "swap" THEN {last.inp.idx2} ELSE {}) :
    i.kind = "str" => \E j \in 1..Len(last.pre.reflections) :
                         last.pre.reflections[j].tag = i.tag

\* C27: get, edit, remove and swap of a ReflectionList or OrientationList,
\* called with an integer index outside 1..len, index 0 and the negative
\* ones included, raise IndexError and leave the list unchanged.
C27_IndexOutOfRange ==
  (/\ last.op \in {"get", "edit", "remove", "swap"}
   /\ TagsPresent
   /\ \E i \in IntIndices : i.i \notin 1..Len(last.pre.reflections))
  => /\ last.exc = "IndexError"
     /\ reference = last.pre

\* C31: unset of any of the 17 slots, active or not, raises nothing, leaves
\* that slot absent and every other slot as it was.
C31_UnsetFrame ==
  last.op = "unset" =>
    /\ ~Raised
    /\ value[last.name] = PyNone
    /\ \A n \in Names \ {last.name} : value[n] = last.pre[n]

\* A slot that was not active was unset while other slots were active.
C31_Witness ==
  /\ last.op = "unset"
  /\ ~active(last.pre, last.name)
  /\ Total(last.pre) >= 2
  /\ value = last.pre

\* C35: a set that raises leaves all 17 slots as they were before the call.
C35_FailedSetFrame ==
  (last.op = "set" /\ Raised) => value = last.pre

\* The slots a call has changed.
Changed == {n \in Names : value[n] # last.pre[n]}

\* C36: a set that completes without error changes no slot of a category
\* other than the target's, and at most one slot besides the target.
C36_SetFrame ==
  (last.op = "set" /\ ~Raised) =>
    /\ \A n \in Changed : con_category(n) = con_category(last.name)
    /\ Cardinality(Changed \ {last.name}) <= 1

\* With three slots active a set replaced the one active slot of its
\* category: the target and one more slot changed.
C36_Witness ==
  /\ last.op = "set"
  /\ ~Raised
  /\ Total(last.pre) = 3
  /\ last.name \in Changed
  /\ Cardinality(Changed \ {last.name}) = 1

\* C37: a set of a value other than None that completes without error
\* leaves as many active slots as before or one more, and no call other
\* than unset, clear and the bulk setters leaves fewer active slots than
\* before.
C37_CountMonotone ==
  /\ (last.op = "set" /\ ~Raised /\ last.val # PyNone)
       => Total(value) \in {Total(last.pre), Total(last.pre) + 1}
  /\ (last.op \notin {"idle", "unset", "clear", "asdict", "astuple", "new"})
       => Total(value) >= Total(last.pre)

\* The splits of three active slots over (DETECTOR, REFERENCE, SAMPLE).
Splits == {<< 0, 0, 3 >>, << 0, 1, 2 >>, << 1, 0, 2 >>, << 1, 1, 1 >>}

\* C38: in every reachable state with three active slots a SAMPLE slot is
\* active, the slots are split over the categories as 3 sample, 2 sample and
\* 1 reference, 2 sample and 1 detector, or one of each, and the classifier
\* does not reach its final 'return False'.
C38_Splits ==
  Total(value) = 3 =>
    /\ Count(value, "SAMPLE") >= 1
    /\ << Count(value, "DETECTOR"), Count(value, "REFERENCE"), Count(value, "SAMPLE") >>
         \in Splits
    /\ mode_branch(value) # "fall_through"

\* The classifier was called on two SAMPLE slots and a DETECTOR slot.
C38_Witness ==
  /\ last.op = "is_current_mode_implemented"
  /\ ~Raised
  /\ Count(value, "SAMPLE") = 2
  /\ Count(value, "DETECTOR") = 1
  /\ mode_branch(value) = "2_samp_det"

\* C32: construction with no system tag and exactly two supplied values
\* gives, when it gives a lattice, a Tetragonal one; a Hexagonal or
\* Rhombohedral lattice is only constructed with that tag given.
C32_TwoValuesTetragonal ==
  (last.op = "Crystal" /\ ~Raised) =>
    /\ (last.inp.system = NoSystem /\ Supplied(last.inp) = 2)
         => crystal.system = "Tetragonal"
    /\ crystal.system \in {"Hexagonal", "Rhombohedral"}
         => last.inp.system = crystal.system

\* A lattice was constructed from a and c with no tag.
C32_Witness ==
  /\ last.op = "Crystal"
  /\ ~Raised
  /\ last.inp.system = NoSystem
  /\ SuppliedFields(last.inp) = {"a", "c"}
  /\ crystal.system = "Tetragonal"

\* The minimal values of each system in order, as the specification lists
\* them.
MinimalOrder ==
  [ Triclinic |-> << "a", "b", "c", "alpha", "beta", "gamma" >>,
    Monoclinic |-> << "a", "b", "c", "beta" >>, Orthorhombic |-> << "a", "b", "c" >>,
    Tetragonal |-> << "a", "c" >>, Hexagonal |-> << "a", "c" >>,
    Rhombohedral |-> << "a", "alpha" >>, Cubic |-> << "a" >> ]

\* Lattice parameters of system S with the values t in the fields that
\* MinimalOrder names.
FromMinimal(S, t) ==
  LET val(f) == IF \E i \in 1..Len(t) : MinimalOrder[S][i] = f
                THEN t[CHOOSE i \in 1..Len(t) : MinimalOrder[S][i] = f]
                ELSE PyNone
  IN LatticeParams(val("a"), val("b"), val("c"), val("alpha"), val("beta"), val("gamma"), S)

\* C33: for every constructed lattice of system S, get_lattice_params
\* returns the minimal values of S in order, as many as the constructor
\* accepts as the minimum for S, and constructing again with tag S from
\* these values gives the same six cell values (it cannot fail where all
\* three lengths are floats, and where it gives a lattice the lattice has
\* these cell values).
C33_MinimalParams ==
  last.op = "get_lattice_params" =>
    LET S == crystal.system
        t == last.ret
        again == Crystal(crystal.name, FromMinimal(S, t))
    IN /\ ~Raised
       /\ Len(t) = MinimalCount[S]
       /\ \A i \in 1..Len(t) : t[i] = crystal[MinimalOrder[S][i]]
       /\ \E r \in again : r.exc = "None"
       /\ \A r \in again : r.exc = "None" => Cell(r.crystal) = Cell(crystal)
       /\ (\A l \in {crystal.a, crystal.b, crystal.c} : l.t = "float")
            => \A r \in again : r.exc = "None"

\* The minimal values of a monoclinic lattice were read.
C33_Witness ==
  /\ last.op = "get_lattice_params"
  /\ crystal.system = "Monoclinic"
  /\ last.ret = << crystal.a, crystal.b, crystal.c, crystal.beta >>
  /\ crystal.beta # crystal.alpha

\* The system that the tag or, with no tag, the number of supplied values
\* stands for.
ResolvedSystem(params) ==
  IF params.system # NoSystem THEN params.system
  ELSE IF Supplied(params) = 2 THEN "Tetragonal"
  ELSE CountTable[Supplied(params)]

\* C40: when as many values are supplied as the resolved system needs at
\* the least, but not in the fields of that system's minimal values,
\* construction raises DiffcalcException and gives no lattice: no value is
\* stored as a parameter other than the one it was supplied as.
C40_BoundByName ==
  (/\ last.op \in {"Crystal", "get_lattice_params"}
   /\ Supplied(last.inp) \in 1..4
   /\ ResolvedSystem(last.inp) \in DOMAIN MinimalFields
   /\ Supplied(last.inp) = MinimalCount[ResolvedSystem(last.inp)]
   /\ SuppliedFields(last.inp) # MinimalFields[ResolvedSystem(last.inp)])
  => /\ last.exc = "DiffcalcException"
     /\ crystal = NoCrystal

\* The list without its entry at place f.
Without(refs, f) ==
  [i \in 1..(Len(refs) - 1) |-> IF i < f THEN refs[i] ELSE refs[i + 1]]

\* C34: remove with a tag takes out the first entry in list order that
\* carries the tag and nothing else, the other entries keeping their order
\* and the length going down by one; when no entry carries the tag it
\* raises ValueError and the list is unchanged.
C34_RemoveByTag ==
  (last.op = "remove" /\ last.inp.idx.kind = "str") =>
    LET before == last.pre.reflections
        tag == last.inp.idx.tag
        carriers == {i \in 1..Len(before) : before[i].tag = tag}
    IN IF carriers = {}
       THEN last.exc = "ValueError" /\ reference = last.pre
       ELSE /\ ~Raised
            /\ Len(reference.reflections) = Len(before) - 1
            /\ \E f \in carriers :
                 /\ \A i \in carriers : f <= i
                 /\ reference.reflections = Without(before, f)

\* Of two entries with the same tag the first was removed by that tag and
\* the second, a different entry, is left.
C34_Witness ==
  /\ last.op = "remove"
  /\ last.inp.idx.kind = "str"
  /\ Len(last.pre.reflections) = 2
  /\ last.pre.reflections[1].tag = last.inp.idx.tag
  /\ last.pre.reflections[2].tag = last.inp.idx.tag
  /\ last.pre.reflections[1] # last.pre.reflections[2]
  /\ reference.reflections = << last.pre.reflections[2] >>

\* The object other than the one the call was made on.
OtherObject == IF last.name = "first" THEN "second" ELSE "first"

\* C39: a list object made from the serialised form of another is
\* independent of it: add, edit, remove and swap on one of the two change
\* neither the entries nor the length seen through the other.
C39_Independent ==
  (/\ last.op \in {"add", "edit", "remove", "swap"}
   /\ last.pre.second.state # "none")
  => list_of(reference, OtherObject) = list_of(last.pre, OtherObject)

====
